---- MODULE Spec2Model ----
(***************************************************************************)
(* A model of download_nfl_gamebooks.py: the week resolver, the linear    *)
(* browser session (login, consent, tab, week, page dump, enumeration,    *)
(* per-entry download and rename, failure handler, cleanup) and the       *)
(* download directory shared with the browser's own download threads.     *)
(*                                                                         *)
(* Time is counted in seconds from datetime(2024, 9, 5), the season start. *)
(* A file name is a record [stem, ext]; a directory is a function from     *)
(* names to file identities: a negative number for a file that was there   *)
(* before the run, j >= 1 for the file produced by the download that       *)
(* iteration j (1-based) triggered.                                        *)
(***************************************************************************)
EXTENDS Integers, Sequences, FiniteSets, TLC

VARIABLES
    current_date,    \* datetime.now(), seconds from the season start
    args_week,       \* args.week: <<>> for None, <<v>> for --week v
    week_number,     \* <<>> before line 39, <<w>> after
    pc,              \* position of the script
    driver,          \* "none", "open" or "closed"
    quits,           \* number of driver.quit() calls made
    touched,         \* a driver call was made on a session that is not open
    uncaught,        \* an exception escaped the top-level handler
    page,            \* the game panels the site currently shows
    n_games,         \* len(game_panels) of line 141, the range of the loop
    i,               \* loop index of line 145 (0-based)
    game_name,       \* identifier computed for the current entry
    extracted,       \* which branch of lines 173-181 named the entry
    existing_files,  \* snapshot of line 191
    files,           \* the download directory: name -> file identity
    pending,         \* downloads triggered and not yet written to the directory
    out              \* the last message of the run: [kind, name]

vars == <<current_date, args_week, week_number, pc, driver, quits, touched,
          uncaught, page, n_games, i, game_name, extracted, existing_files,
          files, pending, out>>

runvars == <<driver, quits, touched, uncaught, page, n_games, i, game_name,
             extracted, existing_files, files, pending, out>>

-----------------------------------------------------------------------------
(* Bounds of the model *)

\* current dates range over -DaysBefore .. MaxDay whole days from the start
DaysBefore == 3
MaxDay == 135
\* --week values range over -1 .. MaxOverride
MaxOverride == 20
\* a page shows at most MaxPanels game panels
MaxPanels == 2

-----------------------------------------------------------------------------
(* Week resolver, lines 17-39 *)

season_start == 0

LastWeek == 18

Min(a, b) == IF a < b THEN a ELSE b

\* timedelta.days: whole days, rounded towards minus infinity
days(delta) == delta \div 86400

\* a faulty variant of lines 29-30: the week is not capped
get_current_nfl_week_nocap(now) ==
    IF now < season_start
    THEN 1
    ELSE (days(now - season_start) \div 7) + 1

\* lines 17-30
get_current_nfl_week(now) ==
    IF now < season_start
    THEN 1
    ELSE LET days_since_start == days(now - season_start)
             week == (days_since_start \div 7) + 1
         IN  Min(week, LastWeek)

\* a faulty variant of line 39: "args.week if args.week else ...", which drops --week 0
resolve_week_truthy(week, now) ==
    IF week # <<>> /\ week[1] # 0 THEN week ELSE <<get_current_nfl_week(now)>>

\* line 39
resolve_week(week, now) ==
    IF week # <<>> THEN week ELSE <<get_current_nfl_week(now)>>

TimesOfDay == {0, 1, 43200, 86399}

Dates == {d * 86400 + s : d \in (0 - DaysBefore) .. MaxDay, s \in TimesOfDay}

Overrides == {<<>>} \cup {<<v>> : v \in (0 - 1) .. MaxOverride}

NoName == [stem |-> "", ext |-> ""]

Quiet == [kind |-> "", name |-> NoName]

InitRun ==
    /\ week_number = <<>>
    /\ pc = "start"
    /\ driver = "none"
    /\ quits = 0
    /\ touched = FALSE
    /\ uncaught = FALSE
    /\ page = <<>>
    /\ n_games = 0
    /\ i = 0
    /\ game_name = ""
    /\ extracted = ""
    /\ existing_files = {}
    /\ pending = {}
    /\ out = Quiet

\* lines 33-40
ResolveWeek ==
    /\ pc = "start"
    /\ week_number' = resolve_week(args_week, current_date)
    /\ pc' = "launch"
    /\ UNCHANGED <<current_date, args_week>>
    /\ UNCHANGED runvars

InitWeek ==
    /\ current_date \in Dates
    /\ args_week \in Overrides
    /\ files = << >>
    /\ InitRun

NextWeek == ResolveWeek

SpecWeek == InitWeek /\ [][NextWeek]_vars

-----------------------------------------------------------------------------
(* Strings of the page: a class attribute is a sequence of characters *)

RECURSIVE split_from(_, _, _)
split_from(s, cur, acc) ==
    IF s = <<>>
    THEN IF cur = <<>> THEN acc ELSE Append(acc, cur)
    ELSE IF Head(s) = " "
         THEN split_from(Tail(s), <<>>, IF cur = <<>> THEN acc ELSE Append(acc, cur))
         ELSE split_from(Tail(s), Append(cur, Head(s)), acc)

\* str.split(): the whitespace-separated words
split(s) == split_from(s, <<>>, <<>>)

\* str.startswith
startswith(s, prefix) ==
    /\ Len(s) >= Len(prefix)
    /\ SubSeq(s, 1, Len(prefix)) = prefix

RECURSIVE str(_)
\* the characters as one string
str(s) == IF s = <<>> THEN "" ELSE Head(s) \o str(Tail(s))

None == [some |-> FALSE, code |-> ""]

truthy(v) == v.some /\ v.code # ""

RECURSIVE team_of(_)
\* lines 163-166 and 168-171: the first class name that starts with "team",
\* without that prefix
team_of(class_names) ==
    IF class_names = <<>>
    THEN None
    ELSE IF startswith(Head(class_names), <<"t", "e", "a", "m">>)
         THEN [some |-> TRUE,
               code |-> str(SubSeq(Head(class_names), 5, Len(Head(class_names))))]
         ELSE team_of(Tail(class_names))

\* a faulty variant of lines 177 and 180: the 0-based index names the entry
positional_name_zero_based(idx) == "game_" \o ToString(idx)

\* lines 177 and 180: f"game_{i+1}"
positional_name(idx) == "game_" \o ToString(idx + 1)

\* lines 154-181: the branch taken and the identifier of entry idx (0-based)
extract(panel, idx, raises) ==
    IF raises
    THEN [branch |-> "error", game_name |-> positional_name(idx)]
    ELSE LET club_rows == panel.rows
             visitor_team == IF Len(club_rows) >= 2
                             THEN team_of(split(club_rows[1])) ELSE None
             home_team == IF Len(club_rows) >= 2
                          THEN team_of(split(club_rows[2])) ELSE None
         IN  IF truthy(visitor_team) /\ truthy(home_team)
             THEN [branch |-> "codes",
                   game_name |-> visitor_team.code \o home_team.code]
             ELSE [branch |-> "nocodes", game_name |-> positional_name(idx)]

-----------------------------------------------------------------------------
(* The pages the site may show *)

ClassSF == <<"c","l","u","b","R","o","w"," ","p","o","s","s","e","s","s","i","o","n",
             " ","t","e","a","m","S","F">>
ClassKC == <<"c","l","u","b","R","o","w"," ","t","e","a","m","K","C">>
ClassBare == <<"c","l","u","b","R","o","w"," "," ","t","e","a","m">>

PanelSFKC == [rows |-> <<ClassSF, ClassKC>>, button |-> TRUE]
PanelNoButton == [rows |-> <<ClassKC, ClassSF>>, button |-> FALSE]
PanelBare == [rows |-> <<ClassBare, ClassKC>>, button |-> TRUE]
PanelOneRow == [rows |-> <<ClassSF>>, button |-> TRUE]

PanelKinds == {PanelSFKC, PanelNoButton, PanelBare, PanelOneRow}

Pages == UNION {[1 .. n -> PanelKinds] : n \in 0 .. MaxPanels}

-----------------------------------------------------------------------------
(* The download directory *)

pdf(stem) == [stem |-> stem, ext |-> ".pdf"]

\* glob.glob(os.path.join(DOWNLOAD_DIR, "*.pdf"))
glob(dir) == {n \in DOMAIN dir : n.ext = ".pdf"}

\* os.path.exists
exists(dir, name) == name \in DOMAIN dir

\* os.rename on POSIX: the source takes the target's name, replacing a file
\* that has it
rename(dir, src, dst) ==
    [n \in (DOMAIN dir \ {src}) \cup {dst} |-> IF n = dst THEN dir[src] ELSE dir[n]]

\* a faulty variant of lines 213-217: the first suffixed name is taken unchecked
final_filename_unchecked(dir, name, target, counter) ==
    IF exists(dir, target) THEN pdf(name \o "_" \o ToString(counter)) ELSE target

RECURSIVE final_filename(_, _, _, _)
\* lines 213-217: the while loop, entered with final_filename = new_filename
\* and counter = 1
final_filename(dir, name, target, counter) ==
    IF exists(dir, target)
    THEN final_filename(dir, name, pdf(name \o "_" \o ToString(counter)), counter + 1)
    ELSE target

OldNames == <<pdf("SFKC"), pdf("SFKC_1"), pdf("game_1"), [stem |-> "notes", ext |-> ".txt"]>>

OldId(name) == 0 - (CHOOSE k \in 1 .. Len(OldNames) : OldNames[k] = name)

Dir(S) == [n \in {OldNames[k] : k \in S} |-> OldId(n)]

\* what os.makedirs(DOWNLOAD_DIR, exist_ok=True) may find there
InitialDirs == {Dir({}), Dir({1}), Dir({1, 2, 4}), Dir({3})}

\* the names under which the browser may save a download
DownloadNames == {pdf("58001"), pdf("58002"), pdf("SFKC"), pdf("SFKC_1")}

-----------------------------------------------------------------------------
(* The session driver, lines 42-236 *)

Say(kind) == [kind |-> kind, name |-> NoName]

\* every call on the driver: it must find the session open
Touch == touched' = (touched \/ driver # "open")

week_vars == <<current_date, args_week, week_number>>

loop_vars == <<page, n_games, i, game_name, extracted, existing_files>>

\* lines 46-63: the download directory is made and the browser is started; a
\* browser that does not start ends the script before the try block
Launch ==
    /\ pc = "launch"
    /\ \E started \in BOOLEAN :
          /\ driver' = IF started THEN "open" ELSE "none"
          /\ pc' = IF started THEN "login" ELSE "exit"
          /\ uncaught' = ~started
    /\ UNCHANGED <<week_vars, loop_vars, quits, touched, files, pending, out>>

\* lines 68-90: each field is looked up a second way when the first lookup raises
login_ok(get_ok, user1, user2, pass1, pass2, keys_ok, button1, button2, click_ok) ==
    /\ get_ok
    /\ user1 \/ user2
    /\ pass1 \/ pass2
    /\ keys_ok
    /\ button1 \/ button2
    /\ click_ok

\* lines 66-93
Login ==
    /\ pc = "login"
    /\ \E get_ok, user1, user2, pass1, pass2, keys_ok, button1, button2, click_ok \in BOOLEAN :
          LET ok == login_ok(get_ok, user1, user2, pass1, pass2, keys_ok,
                             button1, button2, click_ok)
          IN  /\ pc' = IF ok THEN "consent" ELSE "handler"
              /\ out' = IF ok THEN Say("logged_in") ELSE Say("error")
    /\ Touch
    /\ UNCHANGED <<week_vars, loop_vars, driver, quits, uncaught, files, pending>>

\* lines 95-102
Consent ==
    /\ pc = "consent"
    /\ \E url_ok, on_terms, get_ok \in BOOLEAN :
          LET ok == url_ok /\ (on_terms => get_ok)
          IN  /\ pc' = IF ok THEN "tab" ELSE "handler"
              /\ out' = IF ~ok THEN Say("error")
                        ELSE IF on_terms THEN Say("accepted") ELSE Say("no_terms")
    /\ Touch
    /\ UNCHANGED <<week_vars, loop_vars, driver, quits, uncaught, files, pending>>

\* a faulty variant of lines 112-120: a REG tab that is missing ends the run
tab_next_strict(found, click_ok) == IF found /\ click_ok THEN "week" ELSE "handler"

\* lines 112-120: the bare except of line 119 takes whatever the lookup of the
\* REG tab or its click raises
tab_next(found, click_ok) == "week"

\* lines 104-120
TabSelect ==
    /\ pc = "tab"
    /\ \E url_ok, found, click_ok \in BOOLEAN :
          /\ pc' = IF url_ok THEN tab_next(found, click_ok) ELSE "handler"
          /\ out' = IF ~url_ok THEN Say("error")
                    ELSE IF found /\ click_ok THEN Say("reg_clicked")
                    ELSE Say("reg_missing")
    /\ Touch
    /\ UNCHANGED <<week_vars, loop_vars, driver, quits, uncaught, files, pending>>

\* lines 122-130
WeekSelect ==
    /\ pc = "week"
    /\ \E clickable, click_ok \in BOOLEAN :
          /\ pc' = "dump"
          /\ out' = IF clickable /\ click_ok THEN Say("week_clicked")
                    ELSE Say("week_warning")
    /\ Touch
    /\ UNCHANGED <<week_vars, loop_vars, driver, quits, uncaught, files, pending>>

\* lines 132-135
PageDump ==
    /\ pc = "dump"
    /\ \E ok \in BOOLEAN :
          /\ pc' = IF ok THEN "enumerate" ELSE "handler"
          /\ out' = IF ok THEN Say("dumped") ELSE Say("error")
    /\ Touch
    /\ UNCHANGED <<week_vars, loop_vars, driver, quits, uncaught, files, pending>>

\* lines 137-142
Enumerate ==
    /\ pc = "enumerate"
    /\ \E ok \in BOOLEAN, shown \in Pages :
          /\ pc' = IF ok THEN "loop" ELSE "handler"
          /\ page' = IF ok THEN shown ELSE page
          /\ n_games' = IF ok THEN Len(shown) ELSE n_games
          /\ out' = IF ok THEN Say("found") ELSE Say("error")
    /\ i' = 0
    /\ Touch
    /\ UNCHANGED <<week_vars, game_name, extracted, existing_files, driver, quits,
                   uncaught, files, pending>>

\* line 145: the range is exhausted; lines 224-227
Finish ==
    /\ pc = "loop"
    /\ i >= n_games
    /\ pc' = "finally"
    /\ out' = Say("complete")
    /\ UNCHANGED <<week_vars, loop_vars, driver, quits, touched, uncaught, files, pending>>

\* lines 145-149: the panels are found again; the page may have lost its last
\* panel since the previous lookup
Refind ==
    /\ pc = "loop"
    /\ i < n_games
    /\ \E ok \in BOOLEAN, left \in 0 .. Len(page) :
          LET game_panels == SubSeq(page, 1, left)
          IN  /\ left >= Len(page) - 1
              /\ page' = IF ok THEN game_panels ELSE page
              /\ pc' = IF ~ok THEN "handler"
                       ELSE IF i >= Len(game_panels) THEN "finally"
                       ELSE "entry"
              /\ out' = IF ~ok THEN Say("error")
                        ELSE IF i >= Len(game_panels) THEN Say("complete")
                        ELSE Say("panel")
    /\ Touch
    /\ UNCHANGED <<week_vars, n_games, i, game_name, extracted, existing_files,
                   driver, quits, uncaught, files, pending>>

\* a faulty variant of lines 184-188: the entry without a button is not skipped
button_next_no_skip(found) == "download"

\* lines 184-188: the lookup of the GAME BOOK button decides what follows
button_next(found) == IF found THEN "download" ELSE "loop"

\* lines 151-188: the entry is named and its GAME BOOK button is looked up
Entry ==
    /\ pc = "entry"
    /\ \E raises \in BOOLEAN :
          LET panel == page[i + 1]
              named == extract(panel, i, raises)
          IN  /\ game_name' = named.game_name
              /\ extracted' = named.branch
              /\ pc' = button_next(panel.button)
              /\ out' = IF pc' = "loop" THEN Say("skipped") ELSE Say("processing")
              /\ i' = IF pc' = "loop" THEN i + 1 ELSE i
    /\ Touch
    /\ UNCHANGED <<week_vars, page, n_games, existing_files, driver, quits,
                   uncaught, files, pending>>

\* lines 190-197
Download ==
    /\ pc = "download"
    /\ existing_files' = glob(files)
    /\ \E scroll_ok, click_ok \in BOOLEAN :
          LET ok == scroll_ok /\ click_ok
          IN  /\ pc' = IF ok THEN "reconcile" ELSE "handler"
              /\ pending' = IF ok THEN pending \cup {i + 1} ELSE pending
              /\ out' = IF ok THEN Say("clicked") ELSE Say("error")
    /\ Touch
    /\ UNCHANGED <<week_vars, page, n_games, i, game_name, extracted, driver,
                   quits, uncaught, files>>

\* a faulty variant of line 204: the files found before the click are not taken out
new_files_all(current_files, existing) == current_files

\* line 204
new_files_of(current_files, existing) == current_files \ existing

\* lines 199-222, the sleep over
Reconcile ==
    /\ pc = "reconcile"
    /\ LET current_files == glob(files)
           new_files == new_files_of(current_files, existing_files)
           new_filename == pdf(game_name)
       IN  IF new_files = {}
           THEN /\ out' = Say("warning_no_file")
                /\ pc' = "loop"
                /\ i' = i + 1
                /\ files' = files
           ELSE \E downloaded_file \in new_files, rename_ok \in BOOLEAN :
                   IF downloaded_file = new_filename
                   THEN /\ out' = Say("kept")
                        /\ pc' = "loop"
                        /\ i' = i + 1
                        /\ files' = files
                   ELSE LET final == final_filename(files, game_name, new_filename, 1)
                        IN  IF rename_ok
                            THEN /\ files' = rename(files, downloaded_file, final)
                                 /\ out' = [kind |-> "renamed", name |-> final]
                                 /\ pc' = "loop"
                                 /\ i' = i + 1
                            ELSE /\ files' = files
                                 /\ out' = Say("error")
                                 /\ pc' = "handler"
                                 /\ i' = i
    /\ UNCHANGED <<week_vars, page, n_games, game_name, extracted, existing_files,
                   driver, quits, touched, uncaught, pending>>

\* a faulty variant of lines 229-235: driver.quit() after the try statement
\* instead of in its finally clause
after_handler_no_finally(shot_ok) == IF shot_ok THEN "finally" ELSE "exit"

\* lines 229-235: the finally clause follows the handler, also when
\* save_screenshot raises
after_handler(shot_ok) == "finally"

\* lines 229-232
Handler ==
    /\ pc = "handler"
    /\ \E shot_ok \in BOOLEAN :
          /\ pc' = after_handler(shot_ok)
          /\ uncaught' = ~shot_ok
          /\ out' = IF shot_ok THEN Say("screenshot") ELSE Say("screenshot_failed")
    /\ Touch
    /\ UNCHANGED <<week_vars, loop_vars, driver, quits, files, pending>>

\* lines 234-236
Finally ==
    /\ pc = "finally"
    /\ driver' = "closed"
    /\ quits' = quits + 1
    /\ pc' = "exit"
    /\ Touch
    /\ UNCHANGED <<week_vars, loop_vars, uncaught, files, pending, out>>

\* the browser writes a triggered download into the directory, at any moment
\* while it runs, under a name no file there has
DownloadLands ==
    /\ driver = "open"
    /\ \E j \in pending, name \in DownloadNames :
          /\ ~exists(files, name)
          /\ files' = [n \in DOMAIN files \cup {name} |-> IF n = name THEN j ELSE files[n]]
          /\ pending' = pending \ {j}
    /\ UNCHANGED <<week_vars, loop_vars, pc, driver, quits, touched, uncaught, out>>

\* the inputs of the runs explored: dates before and after the start, with and
\* without --week
RunInputs == {<<0 - 1, <<>>>>, <<130 * 86400, <<19>>>>}

Init ==
    /\ \E input \in RunInputs :
          /\ current_date = input[1]
          /\ args_week = input[2]
    /\ files \in InitialDirs
    /\ InitRun

Next ==
    \/ ResolveWeek
    \/ Launch
    \/ Login
    \/ Consent
    \/ TabSelect
    \/ WeekSelect
    \/ PageDump
    \/ Enumerate
    \/ Refind
    \/ Entry
    \/ Finish
    \/ Download
    \/ Reconcile
    \/ Handler
    \/ Finally
    \/ DownloadLands

Spec == Init /\ [][Next]_vars

-----------------------------------------------------------------------------
(* Properties *)

resolved == pc # "start"

\* C1: without an override the week is 1 for every date before the season
\* start, and for a date in the k-th block of seven whole days after it
\* (days 7k .. 7k+6) the week is k+1, and 18 once k+1 would exceed 18.
C1_WeekFromDate ==
    (resolved /\ args_week = <<>>) =>
        /\ current_date < 0 => week_number = <<1>>
        /\ \A k \in 0 .. (MaxDay \div 7) :
              (7 * k * 86400 <= current_date /\ current_date < (7 * k + 7) * 86400)
                  => week_number = <<IF k + 1 > 18 THEN 18 ELSE k + 1>>

C1_Witness ==
    /\ resolved
    /\ args_week = <<>>
    /\ current_date >= 126 * 86400
    /\ week_number = <<18>>

\* C2: the week number of the run is an integer in 1 .. 18, for every date and
\* every --week value.
C2_WeekInRange ==
    resolved => (week_number # <<>> /\ week_number[1] \in 1 .. 18)

\* C8: with --week given, the week number of the run is that value, whatever
\* the date.
C8_OverrideWins ==
    (resolved /\ args_week # <<>>) => week_number = args_week

C8_Witness ==
    /\ resolved
    /\ args_week = <<0>>
    /\ week_number = <<0>>
    /\ current_date >= 7 * 86400

\* C3: a session that was opened is closed when the run exits, on every path;
\* driver.quit() is called once and no driver call is made on a closed session.
C3_SessionClosed ==
    /\ quits <= 1
    /\ ~touched
    /\ (driver = "closed") = (quits = 1)
    /\ pc = "exit" => driver # "open"
    /\ driver = "closed" => pc = "exit"

C3_Witness ==
    /\ pc = "exit"
    /\ out.kind = "screenshot_failed"
    /\ driver = "closed"
    /\ quits = 1

suffixed(name, k) == pdf(name \o "_" \o ToString(k))

\* the step of the script from "reconcile": the directory is read and the new
\* file, if any, renamed
reconciles == pc = "reconcile" /\ pc' # "reconcile"

expected_name(panel, idx, branch) ==
    IF branch = "codes" /\ panel = PanelSFKC
    THEN "SFKC"
    ELSE IF panel = PanelNoButton /\ branch = "codes"
         THEN "KCSF"
         ELSE "game_" \o ToString(idx + 1)

\* C5: when exactly one new .pdf file B is there after the wait and the
\* iteration ends, B is stored as <visitor><home>.pdf, or game_<n>.pdf for an
\* entry without both codes, with a suffix _<k> only when that name is taken,
\* and every file found before the click keeps its name.
C5_NewFileRenamed ==
    [][(/\ reconciles
        /\ pc' = "loop"
        /\ existing_files \subseteq glob(files)
        /\ Cardinality(glob(files) \ existing_files) = 1) =>
          LET B == CHOOSE n \in glob(files) : n \notin existing_files
              name == expected_name(page[i + 1], i, extracted)
          IN  /\ \A s \in existing_files :
                    s \in DOMAIN files' /\ files'[s] = files[s]
              /\ \E n \in DOMAIN files' :
                    /\ files'[n] = files[B]
                    /\ \/ n = pdf(name)
                       \/ /\ pdf(name) \in DOMAIN files
                          /\ B # pdf(name)
                          /\ \E k \in 1 .. Cardinality(DOMAIN files) : n = suffixed(name, k)
    ]_vars

C5_Witness ==
    /\ pc = "loop"
    /\ i = 2
    /\ extracted = "nocodes"
    /\ out = [kind |-> "renamed", name |-> pdf("game_2")]
    /\ glob(files) \ existing_files = {pdf("game_2")}
    /\ files[pdf("game_2")] = 2

\* C6: when no new .pdf file is there after the wait, nothing is renamed, the
\* directory is left as it is and the loop goes on with the next entry.
C6_NoNewFile ==
    [][(reconciles /\ glob(files) \subseteq existing_files) =>
          /\ files' = files
          /\ out' = Say("warning_no_file")
          /\ pc' = "loop"
          /\ i' = i + 1
    ]_vars

C6_Witness ==
    /\ out = Say("warning_no_file")
    /\ pc = "loop"
    /\ glob(files) # {}
    /\ pending # {}

\* C7: an entry without a GAME BOOK button is skipped: nothing is triggered or
\* renamed, the run goes on with the next entry, and every entry that is
\* downloaded is named from its own panel or its own position.
C7_SkipWithoutButton ==
    [][(pc = "entry" /\ pc' # "entry") =>
          /\ ~page[i + 1].button =>
                /\ pc' = "loop"
                /\ i' = i + 1
                /\ out' = Say("skipped")
                /\ files' = files
                /\ pending' = pending
                /\ existing_files' = existing_files
          /\ page[i + 1].button =>
                /\ pc' = "download"
                /\ i' = i
                /\ game_name' = expected_name(page[i + 1], i, extracted')
    ]_vars

C7_Witness ==
    /\ pc = "reconcile"
    /\ i = 1
    /\ Len(page) = 2
    /\ ~page[1].button
    /\ page[2] = PanelSFKC
    /\ game_name = "SFKC"
    /\ files = << >>
    /\ pending = {2}

Stage(p) ==
    CASE p = "start" -> 0
      [] p = "launch" -> 1
      [] p = "login" -> 2
      [] p = "consent" -> 3
      [] p = "tab" -> 4
      [] p = "week" -> 5
      [] p = "dump" -> 6
      [] p = "enumerate" -> 7
      [] p \in {"loop", "entry", "download", "reconcile"} -> 8
      [] p = "handler" -> 9
      [] p = "finally" -> 10
      [] p = "exit" -> 11

Step(p) ==
    CASE p = "loop" -> 0
      [] p = "entry" -> 1
      [] p = "download" -> 2
      [] p = "reconcile" -> 3
      [] OTHER -> 0

\* the place of the script in the run: stage, then entry, then step of the entry
Place(p, idx) == Stage(p) * 1000 + (IF Stage(p) = 8 THEN idx * 4 + Step(p) ELSE 0)

Follows(p) ==
    CASE p = "start" -> {"launch"}
      [] p = "launch" -> {"login", "exit"}
      [] p = "login" -> {"consent", "handler"}
      [] p = "consent" -> {"tab", "handler"}
      [] p = "tab" -> {"week", "handler"}
      [] p = "week" -> {"dump"}
      [] p = "dump" -> {"enumerate", "handler"}
      [] p = "enumerate" -> {"loop", "handler"}
      [] p = "loop" -> {"entry", "finally", "handler"}
      [] p = "entry" -> {"download", "loop"}
      [] p = "download" -> {"reconcile", "handler"}
      [] p = "reconcile" -> {"loop", "handler"}
      [] p = "handler" -> {"finally"}
      [] p = "finally" -> {"exit"}
      [] p = "exit" -> {}

Tolerated == {"reg_missing", "week_warning", "skipped", "warning_no_file"}

\* C9: the script only moves forward through Login, Consent, TabSelect,
\* WeekSelect, the rounds (Enumerate, Download, Rename) and Close; a tolerated
\* failure moves it to the next stage or entry, any other failure to the
\* failure handler and from there to Close.
C9_LinearStages ==
    [][pc' # pc =>
          /\ pc' \in Follows(pc)
          /\ Place(pc', i') > Place(pc, i)
          /\ out'.kind \in Tolerated => pc' \in {"week", "dump", "loop"}
          /\ pc = "entry" => pc' # "handler"
          /\ (pc' = "handler") = (out'.kind = "error")
          /\ pc = "handler" => pc' = "finally"
    ]_vars

C9_Witness ==
    /\ pc = "exit"
    /\ i = 2
    /\ extracted = "error"
    /\ out = Say("complete")
    /\ quits = 1
    /\ ~uncaught

\* C10: a file renamed in iteration i was produced by the download that
\* iteration i triggered.
C10_OwnDownload ==
    (pc = "loop" /\ out.kind = "renamed") => files[out.name] = i

====
